---- MODULE Spec2Model ----
(***************************************************************************)
(* Button platform of the Tile Tracker integration                         *)
(* (custom_components/tile_tracker/button.py).                             *)
(*                                                                         *)
(* State: the coordinator's dataset and last_update_success flag, the      *)
(* button entities the platform has constructed and handed to              *)
(* async_add_entities, the batches still waiting to be registered, the     *)
(* button states the state machine holds (what async_check_new_tiles       *)
(* inspects), and the button press being followed.  Presses write no       *)
(* shared state, so one press is followed at a time; a new one may start   *)
(* once the followed one has completed.  reconciled is a history          *)
(* variable: a notification has been processed since the dataset last      *)
(* changed.                                                                *)
(*                                                                         *)
(* The hosting framework is modelled by what it does to this code:         *)
(*  - async_add_entities registers a batch later, in its own task; an      *)
(*    entity whose unique_id is already registered is rejected;            *)
(*  - an entity's state is written when it is registered and on every      *)
(*    coordinator notification; the state of an unavailable entity         *)
(*    carries no extra_state_attributes;                                   *)
(*  - CoordinatorEntity.available is coordinator.last_update_success.      *)
(***************************************************************************)
EXTENDS Naturals, Sequences, FiniteSets

VARIABLES pc, data, last_update_success, created, pending, states, inv,
          reconciled

vars == <<pc, data, last_update_success, created, pending, states, inv,
          reconciled>>

(***************************************************************************)
(* Bounds of the model.                                                    *)
(***************************************************************************)
\* how many times the entities of one tile may be constructed
MaxCreate == 2
\* how many async_add_entities batches may wait for registration
MaxPending == 2

(***************************************************************************)
(* Data: tile uuids, TileDevice snapshots, coordinator datasets.           *)
(***************************************************************************)
Uuids == {"T1", "T2"}
Names == {"Keys", "Wallet"}
\* auth_key: None, the empty string, or a key
NoneKey == "<None>"
AuthKeys == {NoneKey, "", "abc"}

Kinds == {"locate", "refresh", "scan"}
NoUuid == "<none>"
EntryId == "entry1"

\* the value of a missing tile (Python None), shaped like a TileDevice
None == [tile_uuid |-> NoUuid, name |-> "<None>", auth_key |-> NoneKey]

TileDevice(u) == [tile_uuid : {u}, name : Names, auth_key : AuthKeys]

\* coordinator.data: a dict from tile uuid to the TileDevice of that uuid
Datasets ==
    UNION { { d \in [S -> UNION {TileDevice(u) : u \in S}] :
                \A u \in S : d[u].tile_uuid = u } : S \in SUBSET Uuids }

\* Python truthiness of a str-or-None
Bool(s) == s \notin {NoneKey, ""}

\* dict.get(key): the value, or None
Get(d, k) == IF k \in DOMAIN d THEN d[k] ELSE None

(***************************************************************************)
(* Entities.                                                               *)
(***************************************************************************)
TileRefreshButton == [tile_uuid |-> NoUuid, kind |-> "fleet"]
TileLocateButton(u) == [tile_uuid |-> u, kind |-> "locate"]
TileRefreshDeviceButton(u) == [tile_uuid |-> u, kind |-> "refresh"]
TileScanButton(u) == [tile_uuid |-> u, kind |-> "scan"]

\* the three buttons the platform builds for one tile
Triple(u) == {TileLocateButton(u), TileRefreshDeviceButton(u), TileScanButton(u)}

Entities == {TileRefreshButton} \cup UNION {Triple(u) : u \in Uuids}

\* _attr_unique_id
UniqueId(e) ==
    IF e.kind = "fleet" THEN <<"tile", "refresh", EntryId>>
    ELSE <<"tile", e.tile_uuid, e.kind>>

\* the suffix the entity name gives the entity_id (button.<device>_<name>)
EntityIdSuffix(e) ==
    CASE e.kind = "locate" -> "_locate"
      [] e.kind = "refresh" -> "_refresh"
      [] e.kind = "scan" -> "_scan"
      [] OTHER -> "_refresh_tiles"

\* the tile property of the three per-device buttons
Tile(u) == IF DOMAIN data # {} THEN Get(data, u) ELSE None

\* a locate button that forgets the coordinator's flag
LocateAvailable_NoFlag(u) == Tile(u) # None /\ Bool(Tile(u).auth_key)

\* TileLocateButton.available
LocateAvailable(u) ==
    /\ last_update_success
    /\ Tile(u) # None
    /\ Bool(Tile(u).auth_key)

\* TileRefreshDeviceButton.available
RefreshDeviceAvailable(u) == last_update_success /\ Tile(u) # None

\* a scan button that asks for an auth_key as the locate button does
ScanAvailable_NeedsKey(u) ==
    last_update_success /\ Tile(u) # None /\ Bool(Tile(u).auth_key)

\* TileScanButton.available
ScanAvailable(u) == last_update_success /\ Tile(u) # None

\* a fleet button with the dataset test of the per-device buttons
FleetAvailable_NeedsData == last_update_success /\ DOMAIN data # {}

\* TileRefreshButton.available: not overridden, so CoordinatorEntity's
FleetAvailable == last_update_success

Available(e) ==
    CASE e.kind = "locate" -> LocateAvailable(e.tile_uuid)
      [] e.kind = "refresh" -> RefreshDeviceAvailable(e.tile_uuid)
      [] e.kind = "scan" -> ScanAvailable(e.tile_uuid)
      [] OTHER -> FleetAvailable

\* extra_state_attributes, as a set of <<key, value>> pairs
ExtraStateAttributes(e) ==
    IF e.kind = "fleet" THEN {} ELSE {<<"tile_uuid", e.tile_uuid>>}

\* the state the framework writes for an entity: the attributes of an
\* unavailable entity are left out
StateOf(e) ==
    [entity_id_suffix |-> EntityIdSuffix(e),
     available |-> Available(e),
     attributes |-> IF Available(e) THEN ExtraStateAttributes(e) ELSE {}]

\* state.attributes.get(key)
AttrGet(attrs, k) ==
    IF \E p \in attrs : p[1] = k
    THEN (CHOOSE p \in attrs : p[1] = k)[2]
    ELSE NoUuid

Registered == DOMAIN states

(***************************************************************************)
(* A button press: which button, where it stands, the tile it resolved,    *)
(* the backend calls it made, and what it logged at error and warning      *)
(* level.                                                                  *)
(***************************************************************************)
Call(op, u, key, force) ==
    [op |-> op, tile_uuid |-> u, auth_key |-> key, force_scan |-> force]

\* returned: what the awaited backend call answered ("" while none has)
Press(kind, u, at, tile, calls, errors, warnings) ==
    [kind |-> kind, tile_uuid |-> u, pc |-> at, tile |-> tile,
     calls |-> calls, errors |-> errors, warnings |-> warnings,
     returned |-> ""]

Idle == Press("idle", NoUuid, "idle", None, <<>>, <<>>, <<>>)

\* a locate press that logs the missing tile as a warning
LocateStart_WarnsMissing(u) ==
    LET tile == Tile(u)
    IN IF tile = None
       THEN Press("locate", u, "done", None, <<>>, <<>>, <<u>>)
       ELSE Press("locate", u, "await", tile,
                  <<Call("ring_tile", tile.tile_uuid, tile.auth_key, FALSE)>>,
                  <<>>, <<>>)

\* TileLocateButton.async_press up to its await
LocateStart(u) ==
    LET tile == Tile(u)
    IN IF tile = None
       THEN Press("locate", u, "done", None, <<>>, <<u>>, <<>>)
       ELSE Press("locate", u, "await", tile,
                  <<Call("ring_tile", tile.tile_uuid, tile.auth_key, FALSE)>>,
                  <<>>, <<>>)

\* a locate press that rings once more when the ring has failed
LocateFinish_Retries(p, success) ==
    [p EXCEPT !.pc = "done",
              !.returned = IF success THEN "True" ELSE "False",
              !.calls = IF success THEN @ ELSE Append(@, @[1]),
              !.warnings = IF success THEN @ ELSE Append(@, p.tile.name)]

\* a locate press that looks its tile up again for the warning
LocateFinish_Rereads(p, success) ==
    [p EXCEPT !.pc = "done",
              !.returned = IF success THEN "True" ELSE "False",
              !.tile = Tile(p.tile_uuid),
              !.warnings = IF success THEN @
                           ELSE Append(@, Tile(p.tile_uuid).name)]

\* TileLocateButton.async_press after ring_tile has returned success
LocateFinish(p, success) ==
    [p EXCEPT !.pc = "done",
              !.returned = IF success THEN "True" ELSE "False",
              !.warnings = IF success THEN @ ELSE Append(@, p.tile.name)]

\* a scan press that lets the tile service use a cached discovery
ScanStart_NotForced(u) ==
    LET tile == Tile(u)
    IN IF tile = None
       THEN Press("scan", u, "done", None, <<>>, <<u>>, <<>>)
       ELSE Press("scan", u, "await", tile,
                  <<Call("find_tile_ble", u, NoneKey, FALSE)>>, <<>>, <<>>)

\* a scan press that scans for a tile it has not found in the dataset
ScanStart_ScansMissing(u) ==
    LET tile == Tile(u)
    IN Press("scan", u, "await", tile,
             <<Call("find_tile_ble", u, NoneKey, TRUE)>>,
             IF tile = None THEN <<u>> ELSE <<>>, <<>>)

\* TileScanButton.async_press up to its await
ScanStart(u) ==
    LET tile == Tile(u)
    IN IF tile = None
       THEN Press("scan", u, "done", None, <<>>, <<u>>, <<>>)
       ELSE Press("scan", u, "await", tile,
                  <<Call("find_tile_ble", u, NoneKey, TRUE)>>, <<>>, <<>>)

\* a scan press that raises when no device was found
ScanFinish_Raises(p, found) ==
    [p EXCEPT !.pc = IF found THEN "done" ELSE "raised",
              !.returned = IF found THEN "device" ELSE "None"]

\* TileScanButton.async_press after find_tile_ble has returned a device
\* (found) or None
ScanFinish(p, found) ==
    [p EXCEPT !.pc = "done",
              !.returned = IF found THEN "device" ELSE "None",
              !.warnings = IF found THEN @ ELSE Append(@, p.tile.name)]

\* a per-device refresh press that resolves its tile as the scan press does
RefreshDeviceStart_Resolves(u) ==
    IF Tile(u) = None
    THEN Press("refresh", u, "done", None, <<>>, <<u>>, <<>>)
    ELSE Press("refresh", u, "await", None,
               <<Call("async_request_refresh", NoUuid, NoneKey, FALSE)>>,
               <<>>, <<>>)

\* TileRefreshDeviceButton.async_press up to its await
RefreshDeviceStart(u) ==
    Press("refresh", u, "await", None,
          <<Call("async_request_refresh", NoUuid, NoneKey, FALSE)>>, <<>>, <<>>)

\* TileRefreshButton.async_press up to its await
RefreshStart ==
    Press("fleet", NoUuid, "await", None,
          <<Call("async_request_refresh", NoUuid, NoneKey, FALSE)>>, <<>>, <<>>)

\* either refresh press after async_request_refresh has returned
RefreshFinish(p) == [p EXCEPT !.pc = "done", !.returned = "None"]

(***************************************************************************)
(* Init: the coordinator exists and holds a dataset; the button platform   *)
(* has not been set up yet.                                                *)
(***************************************************************************)
Init ==
    /\ pc = "setup"
    /\ data \in Datasets
    /\ last_update_success = TRUE
    /\ created = [e \in Entities |-> 0]
    /\ pending = <<>>
    /\ states = <<>>
    /\ inv = Idle
    /\ reconciled = FALSE

(***************************************************************************)
(* async_setup_entry: the fleet button and one triple per tile of the      *)
(* dataset go to async_add_entities; the listener is registered.           *)
(***************************************************************************)
async_setup_entry ==
    /\ pc = "setup"
    /\ LET entities == {TileRefreshButton} \cup UNION {Triple(u) : u \in DOMAIN data}
       IN /\ created' = [e \in Entities |->
                            IF e \in entities THEN created[e] + 1 ELSE created[e]]
          /\ pending' = Append(pending, entities)
    /\ pc' = "running"
    /\ UNCHANGED <<data, last_update_success, states, inv, reconciled>>

(***************************************************************************)
(* The framework registers the oldest batch: every entity whose unique_id  *)
(* is not registered yet gets its first state written.                     *)
(***************************************************************************)
AddEntitiesFinish ==
    /\ pending # <<>>
    /\ LET batch == Head(pending)
           fresh == {e \in batch :
                       \A r \in Registered : UniqueId(r) # UniqueId(e)}
       IN states' = [e \in Registered \cup fresh |->
                        IF e \in Registered THEN states[e] ELSE StateOf(e)]
    /\ pending' = Tail(pending)
    /\ UNCHANGED <<pc, data, last_update_success, created, inv, reconciled>>

(***************************************************************************)
(* The polling engine finishes a refresh cycle.                            *)
(***************************************************************************)
RefreshSucceeds ==
    /\ pc = "running"
    /\ \E d \in Datasets :
          /\ data' = d
          /\ last_update_success' = TRUE
          /\ reconciled' = (reconciled /\ d = data)
    /\ UNCHANGED <<pc, created, pending, states, inv>>

RefreshFails ==
    /\ pc = "running"
    /\ last_update_success' = FALSE
    /\ UNCHANGED <<pc, data, created, pending, states, inv, reconciled>>

(***************************************************************************)
(* async_check_new_tiles.                                                  *)
(***************************************************************************)
\* the uuids read off the registered locate buttons' states
ExistingUuids ==
    {AttrGet(states[e].attributes, "tile_uuid") :
        e \in {r \in Registered :
                 /\ states[r].entity_id_suffix = "_locate"
                 /\ AttrGet(states[r].attributes, "tile_uuid") # NoUuid}}

\* a reconciliation that passes over the tiles without a usable auth_key
NewUuids_OnlyKeyed ==
    {u \in DOMAIN data : u \notin ExistingUuids /\ Bool(data[u].auth_key)}

NewUuids == {u \in DOMAIN data : u \notin ExistingUuids}

\* a reconciliation that builds the fleet button again with the triples
NewEntities_WithFleet ==
    IF NewUuids = {} THEN {}
    ELSE {TileRefreshButton} \cup UNION {Triple(u) : u \in NewUuids}

\* a reconciliation that builds only the locate button of a new tile
NewEntities_LocateOnly == {TileLocateButton(u) : u \in NewUuids}

NewEntities == UNION {Triple(u) : u \in NewUuids}

\* a notification that takes itself for a successful refresh
Notify_MarksSuccess ==
    /\ pc = "running"
    /\ \A e \in NewEntities : created[e] < MaxCreate
    /\ NewEntities # {} => Len(pending) < MaxPending
    /\ created' = [e \in Entities |->
                      IF e \in NewEntities THEN created[e] + 1 ELSE created[e]]
    /\ pending' = IF NewEntities # {} THEN Append(pending, NewEntities) ELSE pending
    /\ states' = [e \in Registered |-> StateOf(e)]
    /\ reconciled' = TRUE
    /\ last_update_success' = TRUE
    /\ UNCHANGED <<pc, data, inv>>

\* a notification after which the buttons of the tiles that have left the
\* dataset are gone
Notify_Prunes ==
    /\ pc = "running"
    /\ \A e \in NewEntities : created[e] < MaxCreate
    /\ NewEntities # {} => Len(pending) < MaxPending
    /\ created' = [e \in Entities |->
                      IF e \in NewEntities THEN created[e] + 1 ELSE created[e]]
    /\ pending' = IF NewEntities # {} THEN Append(pending, NewEntities) ELSE pending
    /\ states' = [e \in {r \in Registered :
                            r.kind = "fleet" \/ r.tile_uuid \in DOMAIN data}
                    |-> StateOf(e)]
    /\ reconciled' = TRUE
    /\ UNCHANGED <<pc, data, last_update_success, inv>>

\* The coordinator calls its listeners: async_check_new_tiles, registered
\* during setup, runs before the update callbacks of the entities, which
\* are registered when the entities are added; these write the states.
Notify ==
    /\ pc = "running"
    /\ \A e \in NewEntities : created[e] < MaxCreate
    /\ NewEntities # {} => Len(pending) < MaxPending
    /\ created' = [e \in Entities |->
                      IF e \in NewEntities THEN created[e] + 1 ELSE created[e]]
    /\ pending' = IF NewEntities # {} THEN Append(pending, NewEntities) ELSE pending
    /\ states' = [e \in Registered |-> StateOf(e)]
    /\ reconciled' = TRUE
    /\ UNCHANGED <<pc, data, last_update_success, inv>>

(***************************************************************************)
(* Button presses.  The framework can press any registered button; the     *)
(* await of a press is resumed when its backend call returns.              *)
(***************************************************************************)
CanPress(e) == e \in Registered /\ inv.pc # "await"

PressLocate ==
    /\ \E u \in Uuids :
          /\ CanPress(TileLocateButton(u))
          /\ inv' = LocateStart(u)
    /\ UNCHANGED <<pc, data, last_update_success, created, pending, states,
                   reconciled>>

RingReturns ==
    /\ inv.kind = "locate" /\ inv.pc = "await"
    /\ \E success \in BOOLEAN : inv' = LocateFinish(inv, success)
    /\ UNCHANGED <<pc, data, last_update_success, created, pending, states,
                   reconciled>>

PressScan ==
    /\ \E u \in Uuids :
          /\ CanPress(TileScanButton(u))
          /\ inv' = ScanStart(u)
    /\ UNCHANGED <<pc, data, last_update_success, created, pending, states,
                   reconciled>>

ScanReturns ==
    /\ inv.kind = "scan" /\ inv.pc = "await"
    /\ \E found \in BOOLEAN : inv' = ScanFinish(inv, found)
    /\ UNCHANGED <<pc, data, last_update_success, created, pending, states,
                   reconciled>>

PressRefreshDevice ==
    /\ \E u \in Uuids :
          /\ CanPress(TileRefreshDeviceButton(u))
          /\ inv' = RefreshDeviceStart(u)
    /\ UNCHANGED <<pc, data, last_update_success, created, pending, states,
                   reconciled>>

PressRefresh ==
    /\ CanPress(TileRefreshButton)
    /\ inv' = RefreshStart
    /\ UNCHANGED <<pc, data, last_update_success, created, pending, states,
                   reconciled>>

RefreshRequestReturns ==
    /\ inv.kind \in {"refresh", "fleet"} /\ inv.pc = "await"
    /\ inv' = RefreshFinish(inv)
    /\ UNCHANGED <<pc, data, last_update_success, created, pending, states,
                   reconciled>>

\* The platform's life: setup, registration, refresh cycles, notifications.
Next ==
    \/ async_setup_entry
    \/ AddEntitiesFinish
    \/ RefreshSucceeds
    \/ RefreshFails
    \/ Notify

Spec == Init /\ [][Next]_vars

\* The buttons' life: setup, registration, refresh cycles, presses.  A press
\* reads the dataset and nothing the notifications write, and writes
\* nothing they read, so the presses are followed apart from them.
NextPress ==
    \/ async_setup_entry
    \/ AddEntitiesFinish
    \/ RefreshSucceeds
    \/ RefreshFails
    \/ PressLocate
    \/ RingReturns
    \/ PressScan
    \/ ScanReturns
    \/ PressRefreshDevice
    \/ PressRefresh
    \/ RefreshRequestReturns

SpecPress == Init /\ [][NextPress]_vars

\* The datasets of one account: T1 is "Keys" with the key "abc", T2 is
\* "Wallet" with an empty key; either may be in the dataset or not.
AccountDatasets ==
    {d \in Datasets :
        \A u \in DOMAIN d :
            d[u] = IF u = "T1"
                   THEN [tile_uuid |-> u, name |-> "Keys", auth_key |-> "abc"]
                   ELSE [tile_uuid |-> u, name |-> "Wallet", auth_key |-> ""]}

InitAccount == Init /\ data \in AccountDatasets

\* a refresh cycle of that account
RefreshAccount == RefreshSucceeds /\ data' \in AccountDatasets

\* The buttons' life over the datasets of one account.
NextPressAccount ==
    \/ async_setup_entry
    \/ AddEntitiesFinish
    \/ RefreshAccount
    \/ RefreshFails
    \/ PressLocate
    \/ RingReturns
    \/ PressScan
    \/ ScanReturns
    \/ PressRefreshDevice
    \/ PressRefresh
    \/ RefreshRequestReturns

\* The buttons' life when every awaited backend call returns: the await of
\* a press is resumed once the call has answered.
FairPress ==
    /\ InitAccount
    /\ [][NextPressAccount]_vars
    /\ WF_vars(RingReturns)
    /\ WF_vars(ScanReturns)
    /\ WF_vars(RefreshRequestReturns)

\* The platform and its buttons together, over the datasets of one account.
NextAll ==
    \/ NextPressAccount
    \/ Notify

SpecAll == InitAccount /\ [][NextAll]_vars

(***************************************************************************)
(* Availability.                                                           *)
(***************************************************************************)
HasKey(u) == u \in DOMAIN data /\ data[u].auth_key \notin {NoneKey, ""}

\* C1: every locate button reports available exactly when the last refresh
\* succeeded, its uuid is a key of the dataset and that tile's auth_key is
\* neither missing nor empty.
C1_LocateAvailability ==
    \A u \in Uuids :
        created[TileLocateButton(u)] > 0 =>
            (Available(TileLocateButton(u))
                <=> (last_update_success /\ u \in DOMAIN data /\ HasKey(u)))

\* a locate button is unavailable after a failed refresh although its tile
\* is in the dataset with a key
C1_Witness ==
    \E u \in Uuids :
        /\ TileLocateButton(u) \in Registered
        /\ HasKey(u)
        /\ ~last_update_success
        /\ ~Available(TileLocateButton(u))

\* C2: every per-device refresh button and every scan button reports
\* available exactly when the last refresh succeeded and its uuid is a key
\* of the dataset, whatever the auth_key.
C2_RefreshScanAvailability ==
    \A u \in Uuids :
        /\ created[TileRefreshDeviceButton(u)] > 0 =>
              (Available(TileRefreshDeviceButton(u))
                  <=> (last_update_success /\ u \in DOMAIN data))
        /\ created[TileScanButton(u)] > 0 =>
              (Available(TileScanButton(u))
                  <=> (last_update_success /\ u \in DOMAIN data))

\* refresh and scan buttons available for a tile without a usable key,
\* whose locate button is unavailable
C2_Witness ==
    \E u \in Uuids :
        /\ TileRefreshDeviceButton(u) \in Registered
        /\ TileScanButton(u) \in Registered
        /\ u \in DOMAIN data /\ ~HasKey(u)
        /\ Available(TileRefreshDeviceButton(u))
        /\ Available(TileScanButton(u))
        /\ ~Available(TileLocateButton(u))

\* C3 as claimed: the fleet refresh button is available in every state.
C3_FleetAlwaysAvailable ==
    created[TileRefreshButton] > 0 => Available(TileRefreshButton)

\* C3 as amended: the fleet refresh button is available exactly when the
\* last refresh succeeded, whatever the dataset holds.
C3_FleetAvailability ==
    created[TileRefreshButton] > 0 =>
        (Available(TileRefreshButton) <=> last_update_success)

\* the fleet button is available over an empty dataset
C3_Witness ==
    /\ TileRefreshButton \in Registered
    /\ DOMAIN data = {}
    /\ last_update_success
    /\ Available(TileRefreshButton)

(***************************************************************************)
(* The locate and scan presses.                                            *)
(***************************************************************************)
RingCalls(p) == {i \in 1..Len(p.calls) : p.calls[i].op = "ring_tile"}

\* C4 as claimed: no ring request ever carries a missing or empty
\* auth_key; a locate press that resolves such a tile calls no backend.
C4_NoRingWithoutKey ==
    inv.kind = "locate" =>
        \A i \in RingCalls(inv) : Bool(inv.calls[i].auth_key)

\* C7: a locate press whose uuid is not a key of the dataset calls no
\* backend, logs one error and no warning, and is complete.
C7_LocateNotFound ==
    [][(PressLocate /\ inv'.tile_uuid \notin DOMAIN data) =>
          /\ inv'.calls = <<>>
          /\ Len(inv'.errors) = 1
          /\ inv'.warnings = <<>>
          /\ inv'.pc = "done"]_vars

\* a completed locate press of a registered button whose tile has left the
\* dataset
C7_Witness ==
    /\ inv.kind = "locate" /\ inv.pc = "done"
    /\ inv.tile = None
    /\ inv.tile_uuid \notin DOMAIN data
    /\ Len(inv.errors) = 1

\* C8 as claimed: every scan press calls find_tile_ble for its uuid with
\* force_scan = True, and none completes without that call.
C8_ScanAlwaysCalls ==
    (inv.kind = "scan" /\ inv.pc = "done") =>
        \E i \in 1..Len(inv.calls) :
            inv.calls[i] = Call("find_tile_ble", inv.tile_uuid, NoneKey, TRUE)

\* C8 as amended: a scan press whose uuid is a key of the dataset calls
\* find_tile_ble once, for its uuid and with force_scan = True; a scan
\* press whose uuid is not a key calls nothing and is complete; the return
\* of the call adds no call.
C8_ScanForced ==
    [][/\ PressScan =>
            IF inv'.tile_uuid \in DOMAIN data
            THEN /\ inv'.calls =
                       <<Call("find_tile_ble", inv'.tile_uuid, NoneKey, TRUE)>>
                 /\ inv'.pc = "await"
            ELSE inv'.calls = <<>> /\ inv'.pc = "done"
       /\ ScanReturns => (inv'.calls = inv.calls /\ inv'.pc = "done")]_vars

\* a scan press completed after its one forced call
C8_Witness ==
    /\ inv.kind = "scan" /\ inv.pc = "done"
    /\ inv.calls = <<Call("find_tile_ble", inv.tile_uuid, NoneKey, TRUE)>>

\* C9: a locate press whose tile is in the dataset with a usable auth_key
\* makes one ring_tile call with that tile's uuid and auth_key; when the
\* call returns True nothing is logged as a warning, when it returns False
\* one warning with the tile's name is, and no further call is made.
C9_LocateRings ==
    [][/\ (PressLocate /\ HasKey(inv'.tile_uuid)) =>
            /\ inv'.tile = data[inv'.tile_uuid]
            /\ inv'.calls = <<Call("ring_tile", data[inv'.tile_uuid].tile_uuid,
                                    data[inv'.tile_uuid].auth_key, FALSE)>>
            /\ inv'.warnings = <<>> /\ inv'.errors = <<>>
       /\ (RingReturns /\ Bool(inv.tile.auth_key)) =>
            /\ inv'.calls = inv.calls
            /\ inv'.returned \in {"True", "False"}
            /\ inv'.returned = "True" => inv'.warnings = <<>>
            /\ inv'.returned = "False" => inv'.warnings = <<inv.tile.name>>
            /\ inv'.pc = "done"]_vars

\* a failed ring of a tile with a key has been logged once, under its name
C9_Witness ==
    /\ inv.kind = "locate" /\ inv.pc = "done"
    /\ Bool(inv.tile.auth_key)
    /\ inv.returned = "False"
    /\ Len(inv.calls) = 1
    /\ inv.warnings = <<inv.tile.name>>

\* C14: a locate press awaiting ring_tile has made its one call with the
\* uuid and auth_key of the tile it resolved; whatever happens to the
\* dataset meanwhile leaves the press as it is, and when the call returns
\* the press keeps that tile, makes no further call and, on False, logs
\* the warning under that tile's name.
C14_SnapshotKept ==
    [][(inv.kind = "locate" /\ inv.pc = "await") =>
          /\ inv.calls = <<Call("ring_tile", inv.tile.tile_uuid,
                                inv.tile.auth_key, FALSE)>>
          /\ inv' # inv =>
                /\ inv'.pc = "done"
                /\ inv'.tile = inv.tile
                /\ inv'.calls = inv.calls
                /\ inv'.warnings = IF inv'.returned = "False"
                                    THEN <<inv.tile.name>> ELSE <<>>]_vars

\* a ring is in flight for a tile that a refresh has meanwhile replaced by
\* one of another name and key, or taken out of the dataset
C14_Witness ==
    /\ inv.kind = "locate" /\ inv.pc = "await"
    /\ Get(data, inv.tile_uuid).name # inv.tile.name
    /\ Get(data, inv.tile_uuid).auth_key # inv.tile.auth_key

\* C15: a scan press whose uuid is not a key of the dataset logs one error,
\* calls no backend, is complete, and changes nothing else.
C15_ScanNotFound ==
    [][(inv' # inv /\ inv'.kind = "scan" /\ inv.pc # "await"
          /\ inv'.tile_uuid \notin DOMAIN data) =>
          /\ inv'.calls = <<>>
          /\ Len(inv'.errors) = 1
          /\ inv'.warnings = <<>>
          /\ inv'.pc = "done"
          /\ UNCHANGED <<pc, data, last_update_success, created, pending,
                         states>>]_vars

\* a completed scan press of a registered button whose tile has left the
\* dataset
C15_Witness ==
    /\ inv.kind = "scan" /\ inv.pc = "done"
    /\ inv.tile = None
    /\ inv.tile_uuid \notin DOMAIN data
    /\ Len(inv.errors) = 1 /\ inv.calls = <<>>

RefreshRequest == Call("async_request_refresh", NoUuid, NoneKey, FALSE)

\* C17: a press of a per-device refresh button or of the fleet refresh
\* button makes one async_request_refresh call and no other, logs no
\* error, and is complete when the call returns; the per-device press
\* does so whether or not its uuid is a key of the dataset and whatever
\* last_update_success is.
C17_RefreshRequests ==
    [][(inv' # inv /\ inv'.kind \in {"refresh", "fleet"}) =>
          /\ inv'.calls = <<RefreshRequest>>
          /\ inv'.errors = <<>> /\ inv'.warnings = <<>>
          /\ inv'.tile = None
          /\ IF inv.pc = "await"
             THEN inv'.pc = "done" /\ inv'.kind = inv.kind
             ELSE inv'.pc = "await"]_vars

\* a per-device refresh press has made its request although its tile is
\* not in the dataset and the last refresh failed
C17_Witness ==
    /\ inv.kind = "refresh"
    /\ inv.tile_uuid \notin DOMAIN data
    /\ ~last_update_success
    /\ inv.calls = <<RefreshRequest>>

\* C16: every press that awaits its backend call completes, whatever the
\* call answers; a press ends nowhere but in completion.
C16_PressCompletes ==
    /\ (inv.pc = "await") ~> (inv.pc = "done")
    /\ [](inv.pc \in {"idle", "await", "done"})

\* a locate, a scan or a refresh press has completed after its call
\* answered with a failure
C16_Witness ==
    /\ inv.pc = "done"
    /\ inv.returned \in {"False", "None"}
    /\ Len(inv.calls) = 1

(***************************************************************************)
(* Reconciliation.                                                         *)
(***************************************************************************)
\* C5 as claimed, in the form most favourable to the code (every batch
\* handed to async_add_entities has been registered): a notification
\* processed over a dataset that has not changed since the last one
\* constructs no entity.
C5_Idempotent ==
    [][(Notify /\ reconciled /\ pending = <<>>) => created' = created]_vars

\* C6 as claimed: no entity is constructed twice.
C6_AtMostOnce == \A e \in Entities : created[e] <= 1

\* C10: setup constructs the fleet button and the triple of every uuid of
\* the dataset, each once, and nothing else; from then on there is one
\* fleet button.
C10_Setup ==
    /\ [][async_setup_entry =>
            \A e \in Entities :
                created'[e] = IF e = TileRefreshButton
                                  \/ e.tile_uuid \in DOMAIN data
                              THEN 1 ELSE 0]_vars
    /\ [](pc = "running" => created[TileRefreshButton] = 1)

\* setup over two tiles is done and a notification has since constructed
\* nothing more
C10_Witness ==
    /\ pc = "running" /\ reconciled
    /\ created[TileRefreshButton] = 1
    /\ \A u \in Uuids : \A e \in Triple(u) : created[e] = 1

\* C11: once a notification has been processed over the current dataset,
\* the three buttons of every uuid of the dataset have been constructed.
C11_AllTilesHaveButtons ==
    reconciled =>
        \A u \in DOMAIN data : \A e \in Triple(u) : created[e] >= 1

\* a notification has just built the triple of a tile that came without a
\* usable auth_key: its locate button is unavailable, the other two are
\* available
C11_Witness ==
    \E u \in DOMAIN data :
        /\ reconciled /\ last_update_success
        /\ ~HasKey(u)
        /\ pending # <<>> /\ pending[Len(pending)] = Triple(u)
        /\ \A e \in Triple(u) : created[e] = 1
        /\ ~Available(TileLocateButton(u))
        /\ Available(TileRefreshDeviceButton(u))
        /\ Available(TileScanButton(u))

\* C12: no step takes a button away, neither from the constructed ones nor
\* from the registered ones, and the three buttons of a uuid that is not a
\* key of the dataset report unavailable.
C12_NeverRemoved ==
    /\ [][/\ \A e \in Entities : created'[e] >= created[e]
          /\ Registered \subseteq DOMAIN states']_vars
    /\ [](\A u \in Uuids \ DOMAIN data :
            \A e \in Triple(u) : created[e] > 0 => ~Available(e))

\* the registered buttons of a tile that has left the dataset are still
\* there after a successful refresh and a notification, all unavailable
C12_Witness ==
    \E u \in Uuids \ DOMAIN data :
        /\ reconciled /\ last_update_success
        /\ Triple(u) \subseteq Registered
        /\ \A e \in Triple(u) : ~Available(e) /\ ~states[e].available

\* C13 as claimed, in the form most favourable to the code (every batch
\* handed to async_add_entities has been registered): a notification
\* processed while last_update_success is False constructs nothing for a
\* uuid whose buttons are registered.
C13_NoNewAfterFailure ==
    [][(Notify /\ ~last_update_success /\ pending = <<>>) =>
          \A u \in Uuids :
              Triple(u) \subseteq Registered =>
                  \A e \in Triple(u) : created'[e] = created[e]]_vars

\* C18: a step of a locate or scan press, and a step in which the listener
\* runs, leaves the dataset and last_update_success as they are; a step of
\* a locate or scan press also leaves the constructed entities, the
\* waiting batches and the registered states as they are; the dataset
\* changes in no step but a refresh cycle's.
C18_Frame ==
    [][/\ (inv' # inv /\ (IF inv.pc = "await" THEN inv.kind ELSE inv'.kind)
                            \in {"locate", "scan"}) =>
            UNCHANGED <<data, last_update_success, created, pending, states>>
       /\ (reconciled' /\ inv' = inv /\ Notify) =>
            UNCHANGED <<data, last_update_success>>
       /\ data' # data => (inv' = inv /\ RefreshSucceeds)]_vars

\* the listener has run and a scan press has completed without a device,
\* after a failed refresh, over a dataset that still holds the tile
C18_Witness ==
    /\ reconciled /\ ~last_update_success
    /\ inv.kind = "scan" /\ inv.pc = "done" /\ inv.returned = "None"
    /\ inv.tile_uuid \in DOMAIN data
    /\ \A e \in Triple(inv.tile_uuid) : created[e] = 1

\* C19: the locate, refresh and scan buttons of a uuid have been
\* constructed equally often.
C19_Triples ==
    \A u \in Uuids :
        /\ created[TileLocateButton(u)] = created[TileRefreshDeviceButton(u)]
        /\ created[TileLocateButton(u)] = created[TileScanButton(u)]

\* a notification has built the triple of a tile that setup did not see
C19_Witness ==
    \E u \in DOMAIN data :
        /\ reconciled
        /\ pending # <<>> /\ pending[Len(pending)] = Triple(u)
        /\ \A e \in Triple(u) : created[e] = 1

====
